---------------------------- MODULE Spec2Model ----------------------------
(***************************************************************************)
(* Model of the photo organiser: the per-file pipeline of                  *)
(* organize_photos_core in photo_organizer.py (desktop program) and in     *)
(* pics.py (web front end), with the file system they act on.              *)
(*                                                                         *)
(* A directory is a string, a path is [dir, name], the file system `fs' is *)
(* a function from the existing paths to the content found there.  One     *)
(* action models one whole pass of the per-file loop body.                 *)
(***************************************************************************)
EXTENDS Integers, Sequences, FiniteSets, TLC

VARIABLES
    program,                \* which orchestrator runs: "photo_organizer" or "pics"
    pc,                     \* "idle", "loop", "report", "done", "aborted", "crashed"
    structure_choice,       \* 'YYYY' or the year/month layout
    walk,                   \* the files of the traversal, in os.walk order
    fs,                     \* path -> content, for every existing file
    dirs,                   \* the existing directories
    log_data,               \* the run statistics
    copied_file_hashes,     \* fingerprints of the images seen so far
    processed_files_count,
    total_files,
    pos,                    \* how many files the loop has taken from the traversal
    faultsLeft,             \* I/O faults the environment may still inject
    hist,                   \* per processed file: what the loop body did with it
    overall_progress,       \* the (processed, total) updates of the overall progress bar
    start_button,           \* state of the Start button: "normal" or "disabled"
    threads,                \* worker threads started by the GUI and not yet returned
    tk_queue,               \* callbacks scheduled with master.after(0, ...), oldest first
    log_access,             \* threads that have accessed log_data while a worker is alive
    runs,                   \* how many times the Start button has started a run
    todo,                   \* lazy os.walk: the directories found and not yet listed
    listed,                 \* lazy os.walk: the directories listed so far
    late                    \* lazy os.walk: the files created in a directory after its listing

\* the state of organize_photos_core and of its environment
core == <<program, pc, structure_choice, walk, fs, dirs, log_data,
          copied_file_hashes, processed_files_count, total_files, pos,
          faultsLeft, hist, overall_progress>>

\* the state of the Tk window of photo_organizer.py
gui == <<start_button, threads, tk_queue, log_access, runs>>

\* the state of the os.walk generator when the traversal is followed step by step
walker == <<todo, listed, late>>

vars == <<core, gui, walker>>

---------------------------------------------------------------------------
(* Bounds of the model *)

MaxFiles == 3

MaxFaults == 1

\* runs started from one window, and files in its source tree
MaxRuns == 2

MaxGuiFiles == 2

\* files in the tree a step-by-step traversal starts on
MaxWalkFiles == 2

---------------------------------------------------------------------------
(* Program constants *)

CHUNK_SIZE == 1048576

IMAGE_EXTENSIONS == {".jpg", ".jpeg", ".png"}

CONVERTIBLE_IMAGE_EXTENSIONS == {".cr2", ".raw", ".tif", ".tiff", ".heic"}

ALL_IMAGE_EXTENSIONS == IMAGE_EXTENSIONS \cup CONVERTIBLE_IMAGE_EXTENSIONS

VIDEO_EXTENSIONS == {".mp4", ".mov", ".avi", ".mkv", ".webm", ".flv"}

---------------------------------------------------------------------------
(* Directories and paths *)

SourceDir == "S"

SubDir == "S/sub"

DestDir == "D"

TempDir == "TMP"

Join(d, n) == d \o "/" \o n

suspect_duplicates_dir == Join(DestDir, "Suspect Duplicates")

videos_base_dir == Join(DestDir, "Videos")

manually_check_dir == Join(DestDir, "Manually Check")

errors_dir == Join(DestDir, "Errors")

SpecialDirs == {suspect_duplicates_dir, videos_base_dir, manually_check_dir, errors_dir}

log_file_path == [dir |-> DestDir, name |-> "photo_organizer_log.txt"]

Path(d, n) == [dir |-> d, name |-> n]

\* str.lower() on the extensions that occur
Lower(ext) ==
    CASE ext \in {".JPG", ".Jpg"} -> ".jpg"
      [] ext = ".JPEG" -> ".jpeg"
      [] ext = ".PNG" -> ".png"
      [] ext = ".CR2" -> ".cr2"
      [] ext \in {".TIF", ".Tif"} -> ".tif"
      [] ext = ".HEIC" -> ".heic"
      [] ext \in {".MP4", ".Mp4"} -> ".mp4"
      [] ext = ".MOV" -> ".mov"
      [] ext = ".TXT" -> ".txt"
      [] ext = ".GIF" -> ".gif"
      [] OTHER -> ext

---------------------------------------------------------------------------
(* Dates: what strftime('%Y') and strftime('%m') give *)

DateA == [y |-> "2021", m |-> "03"]

DateB == [y |-> "2021", m |-> "04"]

DateNow == [y |-> "2026", m |-> "11"]

NoExif == [y |-> "", m |-> ""]

---------------------------------------------------------------------------
(* File contents.  id names the bytes; fp is the perceptual hash of the    *)
(* image the bytes decode to (0: Image.open rejects them); conv tells      *)
(* whether the raw/tiff/heic decoder accepts them; size is in bytes.       *)

Content(id, fp, conv, exif, mtime, size) ==
    [id |-> id, fp |-> fp, conv |-> conv, exif |-> exif, mtime |-> mtime, size |-> size]

File(d, base, ext, c) == [dir |-> d, base |-> base, ext |-> ext, c |-> c]

\* The source files a traversal is drawn from
Catalog ==
    { File(SourceDir, "a", ".jpg", Content(1, 1, "na",  DateA,  DateB, CHUNK_SIZE + 1)),
      File(SourceDir, "a", ".cr2", Content(2, 1, "ok",  NoExif, DateA, CHUNK_SIZE)),
      File(SourceDir, "b", ".tif", Content(3, 2, "bad", NoExif, DateA, 1)),
      File(SourceDir, "c", ".png", Content(4, 0, "na",  NoExif, DateB, 1)),
      File(SourceDir, "v", ".mp4", Content(5, 0, "na",  NoExif, DateA, 2 * CHUNK_SIZE)),
      File(SourceDir, "n", ".txt", Content(6, 0, "na",  NoExif, DateA, 1)),
      File(SubDir,    "a", ".jpg", Content(7, 2, "na",  DateA,  DateA, 1)),
      File(SubDir,    "c", ".png", Content(8, 0, "na",  NoExif, DateB, 0)) }

\* Files already in the destination when a run starts on a used destination
PreExisting ==
    { <<Path(Join(DestDir, "2021"), "a.jpg"), 21>>,
      <<Path(Join(Join(DestDir, "2021"), "03"), "a.jpg"), 22>>,
      <<Path(Join(Join(DestDir, "2021"), "03"), "a_1.jpg"), 23>>,
      <<Path(suspect_duplicates_dir, "a.jpg"), 24>>,
      <<Path(errors_dir, "c.png"), 25>>,
      <<Path(errors_dir, "b.tif"), 26>>,
      <<Path(manually_check_dir, "n.txt"), 27>>,
      <<Path(Join(videos_base_dir, "2021"), "v.mp4"), 28>>,
      <<Path(Join(Join(videos_base_dir, "2021"), "03"), "v.mp4"), 29>>,
      <<Path(TempDir, "a.cr2.jpg"), 30>> }

OldContent(id) == Content(id, 0, "na", NoExif, DateA, 1)

Name(f) == f.base \o f.ext

FilePath(f) == Path(f.dir, Name(f))

\* os.walk lists the top directory before its subdirectories
WalkOrdered(w) ==
    \A i, j \in 1..Len(w) :
        i < j => /\ w[i] # w[j]
                 /\ ~(w[i].dir = SubDir /\ w[j].dir = SourceDir)

RECURSIVE SeqsUpTo(_, _)
SeqsUpTo(S, n) ==
    IF n = 0 THEN {<<>>}
    ELSE LET shorter == SeqsUpTo(S, n - 1)
         IN  shorter \cup {Append(w, f) : w \in {x \in shorter : Len(x) = n - 1}, f \in S}

Traversals == {w \in SeqsUpTo(Catalog, MaxFiles) : WalkOrdered(w)}

\* fs as a function built from a set of <<path, content>> pairs
FsOf(pairs) ==
    [p \in {pr[1] : pr \in pairs} |-> (CHOOSE pr \in pairs : pr[1] = p)[2]]

SourceFs(w) == FsOf({<<FilePath(w[i]), w[i].c>> : i \in 1..Len(w)})

DestFs == FsOf({<<pr[1], OldContent(pr[2])>> : pr \in PreExisting})

DirsOf(paths) == {p.dir : p \in paths}

\* os.path.exists(path): a file or a directory of that name
Exists(w, p) == p \in DOMAIN w.fs \/ Join(p.dir, p.name) \in w.dirs

\* the names os.listdir(d) gives
Listing(f, d) == {p.name : p \in {q \in DOMAIN f : q.dir = d}}

\* writing a file: creates it or replaces what is there
WriteFile(f, p, c) == [q \in DOMAIN f \cup {p} |-> IF q = p THEN c ELSE f[q]]

RemoveFile(f, p) == [q \in DOMAIN f \ {p} |-> f[q]]

---------------------------------------------------------------------------
(* The run statistics and the state the loop body threads through *)

FreshLog ==
    [files_copied |-> 0,
     files_converted |-> [t \in {"cr2", "raw", "tif", "jpeg", "heic"} |-> 0],
     videos_copied |-> 0,
     suspect_duplicates_copied |-> 0,
     manually_checked_files |-> 0,
     files_moved_to_errors |-> 0,
     errors |-> <<>>]

\* what an earlier run of the same process or session left in log_data
StaleLog ==
    [FreshLog EXCEPT !.files_copied = 2, !.files_moved_to_errors = 1, !.errors = <<"process">>]

\* the value of body at x: x is computed once and bound as a value
With(x, body(_)) == CHOOSE y \in {body(r) : r \in {x}} : TRUE

World(f, d, l, h) == [fs |-> f, dirs |-> d, log |-> l, hashes |-> h]

LogError(w, msg) == [w EXCEPT !.log.errors = Append(@, msg)]

Count(w, counter) == [w EXCEPT !.log[counter] = @ + 1]

\* the year or year/month folder under root
TargetFolder(root, date, choice) ==
    IF choice = "YYYY" THEN Join(root, date.y) ELSE Join(Join(root, date.y), date.m)

\* os.makedirs(TargetFolder(...)): the folder and its ancestors
MakeDirs(w, root, date, choice) ==
    [w EXCEPT !.dirs = @ \cup {Join(root, date.y), TargetFolder(root, date, choice)}]

---------------------------------------------------------------------------
(* Destination resolver: the counter loop of organize_photos_core *)

Suffixed(base, counter, ext) == base \o "_" \o ToString(counter) \o ext

RECURSIVE NextFree(_, _, _, _, _)
NextFree(w, d, base, ext, counter) ==
    LET p == Path(d, Suffixed(base, counter, ext))
    IN  IF Exists(w, p) THEN NextFree(w, d, base, ext, counter + 1) ELSE p

\* a faulty variant: the first candidate is taken without looking
ResolveUnchecked(w, d, base, ext) == Path(d, base \o ext)

ResolveDestination(w, d, base, ext) ==
    IF Exists(w, Path(d, base \o ext))
    THEN NextFree(w, d, base, ext, 1)
    ELSE Path(d, base \o ext)

---------------------------------------------------------------------------
(* copy_file_with_progress.  A percentage is the exact quotient num/den;   *)
(* an event is a percentage with the text passed to the callback.          *)

Event(num, den, label) == [num |-> num, den |-> den, label |-> label]

Min(a, b) == IF a < b THEN a ELSE b

\* bytes_copied after each fsrc.read(CHUNK_SIZE) that returned data
RECURSIVE ReadChunks(_, _)
ReadChunks(total_size, bytes_copied) ==
    IF bytes_copied >= total_size THEN <<>>
    ELSE LET n == Min(CHUNK_SIZE, total_size - bytes_copied)
         IN  <<bytes_copied + n>> \o ReadChunks(total_size, bytes_copied + n)

ChunkEvents(chunks, total_size, label) ==
    [i \in 1..Len(chunks) |-> Event(chunks[i] * 100, total_size, label)]

FinalEvent(label) == Event(100, 1, label)

ErrorEvent(label) == Event(0, 1, "Error with " \o label)

Front(s) == SubSeq(s, 1, Len(s) - 1)

Last(s) == s[Len(s)]

CopyFaults == {"none", "open", "write", "stat"}

\* a faulty variant: the closing 100% update is left out
CopyEventsNoFinal(chunks, total_size, label) == ChunkEvents(chunks, total_size, label)

\* the updates of a copy that runs to the end
CopyEvents(chunks, total_size, label) ==
    ChunkEvents(chunks, total_size, label) \o <<FinalEvent(label)>>

\* fault: "open" fails before dst is created (also: src is missing), "write"
\* fails in the last pass of the loop, "stat" fails in shutil.copystat
\* what is left at dst when the loop fails in its last pass
Partial(c, chunks) ==
    Content(0 - c.id, 0, "na", NoExif, DateNow,
            IF Len(chunks) > 1 THEN chunks[Len(chunks) - 1] ELSE 0)

CopyChunks(w, dst, c, chunks, label, fault) ==
    CASE fault = "write" ->
           [w |-> LogError([w EXCEPT !.fs = WriteFile(@, dst, Partial(c, chunks))], "copy"),
            ok |-> FALSE,
            events |-> ChunkEvents(Front(chunks), c.size, label) \o <<ErrorEvent(label)>>]
      [] fault = "stat" ->
           [w |-> LogError([w EXCEPT !.fs = WriteFile(@, dst, [c EXCEPT !.mtime = DateNow])], "copy"),
            ok |-> FALSE,
            events |-> CopyEvents(chunks, c.size, label) \o <<ErrorEvent(label)>>]
      [] OTHER ->
           [w |-> [w EXCEPT !.fs = WriteFile(@, dst, c)],
            ok |-> TRUE,
            events |-> CopyEvents(chunks, c.size, label)]

copy_file_with_progress(w, src, dst, fault) ==
    IF src \notin DOMAIN w.fs \/ fault = "open"
    THEN [w |-> LogError(w, "copy"), ok |-> FALSE, events |-> <<ErrorEvent(src.name)>>]
    ELSE CopyChunks(w, dst, w.fs[src], ReadChunks(w.fs[src].size, 0), src.name, fault)

---------------------------------------------------------------------------
(* The helpers of photo_organizer.py *)

ConvertedType(ext) ==
    CASE ext = ".cr2" -> "cr2"
      [] ext = ".raw" -> "raw"
      [] ext \in {".tif", ".tiff"} -> "tif"
      [] OTHER -> "heic"

\* what the decoder and the JPEG encoder make of content c
Converted(c) == Content(c.id + 100, c.fp, "na", c.exif, DateNow, c.size)

\* what a write that failed half way leaves at the output path
Junk(c) == Content(c.id + 200, 0, "na", NoExif, DateNow, 0)

\* fault: the write of the output fails after the output was opened
convert_to_jpg(w, input_path, ext, output_path, fault) ==
    IF input_path \notin DOMAIN w.fs \/ w.fs[input_path].conv # "ok"
    THEN [w |-> LogError(w, "convert"), ok |-> FALSE]
    ELSE IF fault
    THEN [w |-> LogError([w EXCEPT !.fs = WriteFile(@, output_path, Junk(w.fs[input_path]))],
                         "convert"),
          ok |-> FALSE]
    ELSE [w |-> [w EXCEPT !.fs = WriteFile(@, output_path, Converted(w.fs[input_path])),
                          !.log.files_converted[ConvertedType(ext)] = @ + 1],
          ok |-> TRUE]

\* a faulty variant: the modification time is taken even when EXIF has a date
get_file_date_mtime(w, path, ext) ==
    IF path \notin DOMAIN w.fs THEN DateNow ELSE w.fs[path].mtime

\* the date of path: EXIF DateTimeOriginal of an image, else the mtime,
\* else (the file cannot be read) the current time
get_file_date(w, path, ext) ==
    IF path \notin DOMAIN w.fs THEN DateNow
    ELSE IF ext \in ALL_IMAGE_EXTENSIONS /\ w.fs[path].exif # NoExif
    THEN w.fs[path].exif
    ELSE w.fs[path].mtime

\* h = 0 stands for None
calculate_image_hash(w, image_path) ==
    IF image_path \in DOMAIN w.fs /\ w.fs[image_path].fp # 0
    THEN [w |-> w, h |-> w.fs[image_path].fp]
    ELSE [w |-> LogError(w, "hash"), h |-> 0]

---------------------------------------------------------------------------
(* The loop body of organize_photos_core in photo_organizer.py *)

NoPath == Path("", "")

NoCopy ==
    [called |-> FALSE, src |-> NoPath, id |-> 0, dst |-> NoPath, base |-> "", ext |-> "",
     present |-> {}, ok |-> FALSE, events |-> <<>>]

\* a record of one copy call: the bytes at src (id), the name wanted and the
\* names present in the target folder when dst was resolved, and the result r
CopyCall(w, src, dst, base, ext, r) ==
    [called |-> TRUE, src |-> src, id |-> IF src \in DOMAIN w.fs THEN w.fs[src].id ELSE 0,
     dst |-> dst, base |-> base, ext |-> ext,
     present |-> Listing(w.fs, dst.dir), ok |-> r.ok, events |-> r.events]

NoFaults == [conv |-> FALSE, mkdir |-> FALSE, main |-> "none", err |-> "none", remove |-> FALSE]

Faults ==
    [conv : BOOLEAN, mkdir : BOOLEAN, main : CopyFaults, err : CopyFaults, remove : BOOLEAN]

FaultCount(flt) ==
    (IF flt.conv THEN 1 ELSE 0) + (IF flt.mkdir THEN 1 ELSE 0) + (IF flt.remove THEN 1 ELSE 0)
    + (IF flt.main # "none" THEN 1 ELSE 0) + (IF flt.err # "none" THEN 1 ELSE 0)

\* what one pass of the loop body leaves behind
Outcome(w, route, copy, errcopy, conv, h, raised) ==
    [w |-> w, route |-> route, copy |-> copy, errcopy |-> errcopy, conv |-> conv,
     h |-> h, raised |-> raised, mkdir |-> FALSE, cleaned |-> "none", escaped |-> FALSE,
     after |-> <<>>]

\* a faulty variant: the copy is counted whatever it returned
CopyToCounted(w, src, dst, base, ext, fault, counter) ==
    With(copy_file_with_progress(w, src, dst, fault),
         LAMBDA r : [w |-> Count(r.w, counter),
                     copy |-> CopyCall(w, src, dst, base, ext, r)])

\* resolve a free name in folder d, copy, and count on success
CopyTo(w, src, dst, base, ext, fault, counter) ==
    With(copy_file_with_progress(w, src, dst, fault),
         LAMBDA r : [w |-> IF r.ok THEN Count(r.w, counter) ELSE r.w,
                     copy |-> CopyCall(w, src, dst, base, ext, r)])

ResolveAndCopy(w, src, d, base, ext, fault, counter) ==
    CopyTo(w, src, ResolveDestination(w, d, base, ext), base, ext, fault, counter)

\* the except branch: the original goes to 'Errors'
HandleError(w, f, fault) ==
    With(ResolveAndCopy(w, FilePath(f), errors_dir, f.base, f.ext, fault, "files_moved_to_errors"),
         LAMBDA rc : [w |-> LogError(rc.w, "process"), copy |-> rc.copy])

\* the pass ends in the except branch
Failed(w, f, flt, conv, h) ==
    With(HandleError(w, f, flt.err),
         LAMBDA e : Outcome(e.w, "errors", NoCopy, e.copy, conv, h, TRUE))

\* the pass ends with a copy into folder d
Routed(w, route, src, d, base, ext, flt, counter, h) ==
    With(ResolveAndCopy(w, src, d, base, ext, flt.main, counter),
         LAMBDA rc : Outcome(rc.w, route, rc.copy, NoCopy, "na", h, FALSE))

\* a faulty variant: a failing os.remove is not caught
CleanupUnguarded(o, temp_jpg_path, fault) ==
    IF temp_jpg_path # NoPath /\ Exists(o.w, temp_jpg_path)
    THEN IF fault THEN [o EXCEPT !.cleaned = "failed", !.escaped = TRUE]
         ELSE [o EXCEPT !.w.fs = RemoveFile(@, temp_jpg_path), !.cleaned = "removed"]
    ELSE o

\* the finally branch: the converted temporary is removed
Cleanup(o, temp_jpg_path, fault) ==
    IF temp_jpg_path # NoPath /\ Exists(o.w, temp_jpg_path)
    THEN IF fault THEN [o EXCEPT !.w = LogError(@, "remove"), !.cleaned = "failed"]
         ELSE [o EXCEPT !.w.fs = RemoveFile(@, temp_jpg_path), !.cleaned = "removed"]
    ELSE o

IsDuplicate(h, hashes) == h \in hashes

\* a new image: its folder is made if it is missing (mkdir: os.makedirs was
\* called) and the image is copied there
Organize(w, f, src, base, ext, h, flt, choice, date) ==
    [(IF flt.mkdir /\ TargetFolder(DestDir, date, choice) \notin w.dirs
      THEN Failed(w, f, flt, "na", h)
      ELSE Routed(MakeDirs(w, DestDir, date, choice), "organized", src,
                  TargetFolder(DestDir, date, choice), base, ext, flt, "files_copied", h))
       EXCEPT !.mkdir = TargetFolder(DestDir, date, choice) \notin w.dirs]

\* an image whose fingerprint h is known: duplicate or organized
RouteImage(w, f, src, base, ext, h, flt, choice) ==
    IF IsDuplicate(h, w.hashes)
    THEN Routed(w, "duplicate", src, suspect_duplicates_dir, base, ext, flt,
                "suspect_duplicates_copied", h)
    ELSE Organize([w EXCEPT !.hashes = @ \cup {h}], f, src, base, ext, h, flt, choice,
                  get_file_date(w, src, Lower(ext)))

\* an image file: hash it, or go to the except branch
HashAndRoute(w, f, src, base, ext, flt, choice) ==
    With(calculate_image_hash(w, src),
         LAMBDA hr : IF hr.h = 0
                     THEN Failed(hr.w, f, flt, "na", 0)
                     ELSE RouteImage(hr.w, f, src, base, ext, hr.h, flt, choice))

TempJpgPath(f) == Path(f.dir, f.base \o ".jpg")

ProcessImage(w, f, flt, choice) ==
    IF Lower(f.ext) \in CONVERTIBLE_IMAGE_EXTENSIONS
    THEN With(convert_to_jpg(w, FilePath(f), Lower(f.ext), TempJpgPath(f), flt.conv),
              LAMBDA cv : IF ~cv.ok
                          THEN Failed(cv.w, f, flt, "fail", 0)
                          ELSE [HashAndRoute(cv.w, f, TempJpgPath(f), f.base, ".jpg", flt, choice)
                                   EXCEPT !.conv = "ok"])
    ELSE HashAndRoute(w, f, FilePath(f), f.base, f.ext, flt, choice)

VideoTo(w, f, flt, choice, date) ==
    [(IF flt.mkdir /\ TargetFolder(videos_base_dir, date, choice) \notin w.dirs
      THEN Failed(w, f, flt, "na", 0)
      ELSE Routed(MakeDirs(w, videos_base_dir, date, choice), "video", FilePath(f),
                  TargetFolder(videos_base_dir, date, choice), f.base, f.ext, flt,
                  "videos_copied", 0))
       EXCEPT !.mkdir = TargetFolder(videos_base_dir, date, choice) \notin w.dirs]

ProcessVideo(w, f, flt, choice) ==
    VideoTo(w, f, flt, choice, get_file_date(w, FilePath(f), Lower(f.ext)))

\* a faulty variant: an 'other' file is counted as a photo
ProcessOtherAsPhoto(w, f, flt) ==
    Routed(w, "other", FilePath(f), manually_check_dir, f.base, f.ext, flt, "files_copied", 0)

ProcessOther(w, f, flt) ==
    Routed(w, "other", FilePath(f), manually_check_dir, f.base, f.ext, flt,
           "manually_checked_files", 0)

\* a faulty variant: the extension is compared as it is written
ClassifyCaseSensitive(ext) ==
    IF ext \in ALL_IMAGE_EXTENSIONS
    THEN IF ext \in CONVERTIBLE_IMAGE_EXTENSIONS THEN "convertible" ELSE "native"
    ELSE IF ext \in VIDEO_EXTENSIONS THEN "video"
    ELSE "other"

\* the branch of the loop body taken for extension ext
Classify(ext) ==
    IF Lower(ext) \in ALL_IMAGE_EXTENSIONS
    THEN IF Lower(ext) \in CONVERTIBLE_IMAGE_EXTENSIONS THEN "convertible" ELSE "native"
    ELSE IF Lower(ext) \in VIDEO_EXTENSIONS THEN "video"
    ELSE "other"

DoneEvent == Event(100, 1, "Done.")

\* the statement after try / except / finally: it is not reached when the
\* duplicate branch has left the pass with continue, nor when the pass raised
AfterTry(o) ==
    IF o.route = "duplicate" \/ o.escaped THEN o ELSE [o EXCEPT !.after = <<DoneEvent>>]

\* try / except / finally for one file, and the statement after it
ProcessFile(w, f, flt, choice) ==
  AfterTry(
    Cleanup(CASE Classify(f.ext) \in {"native", "convertible"} -> ProcessImage(w, f, flt, choice)
              [] Classify(f.ext) = "video" -> ProcessVideo(w, f, flt, choice)
              [] OTHER -> ProcessOther(w, f, flt),
            IF Classify(f.ext) = "convertible" THEN TempJpgPath(f) ELSE NoPath,
            flt.remove))

---------------------------------------------------------------------------
(* The environment a run starts in *)

ParentDir == ""

\* the destination path taken by a plain file
DestAsFile == Path(ParentDir, DestDir)

Trees == {t \in SUBSET Catalog : Cardinality(t) <= MaxFiles}

SourcePairs(t) == {<<FilePath(f), f.c>> : f \in t}

UsedPairs == {<<pr[1], OldContent(pr[2])>> : pr \in PreExisting}

\* the orders in which os.walk may yield the files of the source tree
Orders(f) ==
    {w \in Traversals :
        /\ Len(w) = Cardinality({p \in DOMAIN f : p.dir \in {SourceDir, SubDir}})
        /\ \A i \in 1..Len(w) : FilePath(w[i]) \in DOMAIN f /\ f[FilePath(w[i])] = w[i].c}

\* PhotoOrganizerGUI.__init__: the button is enabled, nothing is scheduled;
\* no traversal is under way
GuiInit ==
    /\ start_button = "normal"
    /\ threads = 0
    /\ tk_queue = <<>>
    /\ log_access = {}
    /\ runs = 0
    /\ todo = {}
    /\ listed = {}
    /\ late = {}

InitOf(prog) ==
    /\ program = prog
    /\ pc = "idle"
    /\ structure_choice = ""
    /\ walk = <<>>
    /\ \E src \in {"dir", "missing"}, dest \in {"absent", "file", "dir", "used"} :
         \E t \in Trees :
            /\ src = "missing" => t = {}
            /\ fs = FsOf(SourcePairs(t)
                         \cup (IF dest = "used" THEN UsedPairs ELSE {})
                         \cup (IF dest = "file" THEN {<<DestAsFile, OldContent(20)>>} ELSE {}))
            /\ dirs = {TempDir}
                      \cup (IF src = "dir" THEN {SourceDir, SubDir} ELSE {})
                      \cup (IF dest = "dir" THEN {DestDir} ELSE {})
                      \cup (IF dest = "used" THEN {DestDir} \cup DirsOf({pr[1] : pr \in UsedPairs}) ELSE {})
    /\ log_data \in {FreshLog, StaleLog}
    /\ copied_file_hashes = {}
    /\ processed_files_count = 0
    /\ total_files = 0
    /\ pos = 0
    /\ faultsLeft = MaxFaults
    /\ hist = <<>>
    /\ overall_progress = <<>>
    /\ GuiInit

Init == InitOf("photo_organizer")

---------------------------------------------------------------------------
(* photo_organizer.py: organize_photos_core *)

\* a faulty variant: the checks are skipped
ChecksPassAlways(d, f, canCreate) == TRUE

\* overall_progress_callback(processed, total); at: before, in or after the loop
Overall(processed, total, at) == [processed |-> processed, total |-> total, at |-> at]

\* the source and destination checks at the head of the run
ChecksPass(d, f, canCreate) ==
    /\ SourceDir \in d
    /\ IF DestDir \notin d /\ DestAsFile \notin DOMAIN f THEN canCreate
       ELSE DestDir \in d

\* from the call to the first file, or to `return False'
StartRun ==
    /\ program = "photo_organizer"
    /\ pc = "idle"
    /\ \E choice \in {"YYYY", "YYYY/MM"}, canCreate \in BOOLEAN :
         /\ structure_choice' = choice
         /\ IF ChecksPass(dirs, fs, canCreate)
            THEN /\ dirs' = dirs \cup {DestDir} \cup SpecialDirs
                 /\ \E w \in Orders(fs) :
                       /\ walk' = w
                       /\ total_files' = Len(w)
                       /\ overall_progress' = <<Overall(0, Len(w), "start")>>
                 /\ pc' = "loop"
            ELSE /\ pc' = "aborted"
                 /\ UNCHANGED <<dirs, walk, total_files, overall_progress>>
    /\ log_data' = FreshLog
    /\ copied_file_hashes' = {}
    /\ processed_files_count' = 0
    /\ UNCHANGED <<program, fs, pos, faultsLeft, hist>>

\* a fault is the outcome of an operation the pass performs
FaultsApply(o, f, flt, before) ==
    /\ flt.conv => /\ Lower(f.ext) \in CONVERTIBLE_IMAGE_EXTENSIONS
                   /\ FilePath(f) \in DOMAIN before
                   /\ before[FilePath(f)].conv = "ok"
    /\ flt.mkdir => o.mkdir
    /\ flt.main # "none" => o.copy.called
    /\ flt.err # "none" => o.errcopy.called
    /\ flt.remove => o.cleaned = "failed"

HistEntry(o, flt) ==
    [route |-> o.route, copy |-> o.copy, errcopy |-> o.errcopy, conv |-> o.conv,
     h |-> o.h, raised |-> o.raised, cleaned |-> o.cleaned, escaped |-> o.escaped, flt |-> flt,
     after |-> o.after]

\* one pass of the loop body
ProcessNext ==
    /\ program = "photo_organizer"
    /\ pc = "loop"
    /\ pos < Len(walk)
    /\ \E flt \in {x \in Faults : FaultCount(x) <= faultsLeft},
          f \in {walk[pos + 1]} :
         \E o \in {ProcessFile(World(fs, dirs, log_data, copied_file_hashes), f, flt,
                               structure_choice)} :
             /\ FaultsApply(o, f, flt, fs)
             /\ fs' = o.w.fs
             /\ dirs' = o.w.dirs
             /\ log_data' = o.w.log
             /\ copied_file_hashes' = o.w.hashes
             /\ faultsLeft' = faultsLeft - FaultCount(flt)
             /\ hist' = Append(hist, HistEntry(o, flt))
             /\ pc' = IF o.escaped THEN "crashed" ELSE pc
    /\ processed_files_count' = processed_files_count + 1
    /\ overall_progress' =
          Append(overall_progress, Overall(processed_files_count + 1, total_files, "file"))
    /\ pos' = pos + 1
    /\ UNCHANGED <<program, structure_choice, walk, total_files>>

ReportContent == Content(99, 0, "na", NoExif, DateNow, 1)

\* after the loop: the summary file in the destination root
WriteReport ==
    /\ program = "photo_organizer"
    /\ pc = "loop"
    /\ pos = Len(walk)
    /\ overall_progress' = Append(overall_progress, Overall(total_files, total_files, "end"))
    /\ fs' = WriteFile(fs, log_file_path, ReportContent)
    /\ pc' = "done"
    /\ UNCHANGED <<program, structure_choice, walk, dirs, log_data, copied_file_hashes,
                   processed_files_count, total_files, pos, faultsLeft, hist>>

\* organize_photos_core called directly: the window does not change
Next ==
    \/ StartRun /\ UNCHANGED <<gui, walker>>
    \/ ProcessNext /\ UNCHANGED <<gui, walker>>
    \/ WriteReport /\ UNCHANGED <<gui, walker>>

Spec == Init /\ [][Next]_vars

---------------------------------------------------------------------------
(* photo_organizer.py: the run with os.walk followed step by step, for     *)
(* source directories that contain the destination. os.walk is a           *)
(* generator: it lists a directory when it reaches it, yields its files,   *)
(* and goes on to the subdirectories it found in that listing. It descends *)
(* depth-first in the order the file system gave; here it may take any     *)
(* directory found and not yet listed, which includes every such order.    *)

\* the directories lying directly in ParentDir
TopLevel == {SourceDir, DestDir}

FolderNames ==
    {"sub", "Suspect Duplicates", "Videos", "Manually Check", "Errors",
     DateA.y, DateA.m, DateB.m, DateNow.y, DateNow.m}

\* the subdirectories a listing of d shows
Subdirs(d, ds) ==
    {c \in ds : \/ d = ParentDir /\ c \in TopLevel
                \/ \E n \in FolderNames : c = Join(d, n)}

\* the directories of the tree under top
RECURSIVE TreeDirs(_, _)
TreeDirs(top, ds) == {top} \cup UNION {TreeDirs(c, ds) : c \in Subdirs(top, ds)}

\* the files a listing of d shows
FilesIn(d, f) == {p \in DOMAIN f : p.dir = d}

WalkBases ==
    LET plain == {"a", "v", "n"}
    IN  plain \cup {b \o "_" \o ToString(k) : b \in plain, k \in 1..3}

\* os.path.splitext on the names that occur
SplitFile(p, c) ==
    CHOOSE f \in {File(p.dir, b, e, c) : b \in WalkBases, e \in {".jpg", ".cr2", ".mp4", ".txt"}} :
        Name(f) = p.name

\* the sequences in which the elements of S may be yielded
OrdersOf(S) ==
    {w \in SeqsUpTo(S, Cardinality(S)) :
        Len(w) = Cardinality(S) /\ \A i, j \in 1..Len(w) : i < j => w[i] # w[j]}

\* the files a traversal may start on: in the source folder of the other
\* runs and in the destination folder
WalkCatalog ==
    { File(SourceDir, "a", ".jpg", Content(1, 1, "na", DateA,  DateB, 1)),
      File(SourceDir, "v", ".mp4", Content(5, 0, "na", NoExif, DateA, 1)),
      File(DestDir,   "a", ".jpg", Content(11, 1, "na", DateA,  DateB, 1)),
      File(DestDir,   "a", ".cr2", Content(12, 1, "ok", NoExif, DateA, 1)),
      File(DestDir,   "v", ".mp4", Content(15, 0, "na", NoExif, DateA, 1)),
      File(DestDir,   "n", ".txt", Content(16, 0, "na", NoExif, DateA, 1)) }

\* source_dir: the destination lies outside it, is it, or lies inside it
WalkTops == {SourceDir, DestDir, ParentDir}

WalkInit ==
    /\ program = "photo_organizer"
    /\ pc = "idle"
    /\ structure_choice = ""
    /\ walk = <<>>
    /\ \E top \in WalkTops, made \in BOOLEAN :
         /\ top = DestDir => made
         /\ todo = {top}
         /\ dirs = {ParentDir, SourceDir} \cup (IF made THEN {DestDir} ELSE {})
         /\ \E t \in SUBSET WalkCatalog :
               /\ Cardinality(t) <= MaxWalkFiles
               /\ \A f \in t : f.dir \in dirs /\ f.dir \in TreeDirs(top, dirs)
               /\ fs = FsOf(SourcePairs(t))
    /\ log_data = FreshLog
    /\ copied_file_hashes = {}
    /\ processed_files_count = 0
    /\ total_files = 0
    /\ pos = 0
    /\ faultsLeft = MaxFaults
    /\ hist = <<>>
    /\ overall_progress = <<>>
    /\ listed = {}
    /\ late = {}
    /\ start_button = "normal"
    /\ threads = 0
    /\ tk_queue = <<>>
    /\ log_access = {}
    /\ runs = 0

\* the destination checks of the run whose source directory exists
DestinationOk(d, f, canCreate) ==
    IF DestDir \notin d /\ DestAsFile \notin DOMAIN f THEN canCreate ELSE DestDir \in d

\* from the call to the loop: the special folders are made, then the pre-scan
\* walks the whole tree and counts its files
WalkStartRun ==
    /\ program = "photo_organizer"
    /\ pc = "idle"
    /\ \E choice \in {"YYYY", "YYYY/MM"}, canCreate \in BOOLEAN, top \in todo :
         /\ structure_choice' = choice
         /\ IF top \in dirs /\ DestinationOk(dirs, fs, canCreate)
            THEN /\ dirs' = dirs \cup {DestDir} \cup SpecialDirs
                 /\ total_files' =
                       Cardinality({p \in DOMAIN fs : p.dir \in TreeDirs(top, dirs')})
                 /\ overall_progress' = <<Overall(0, total_files', "start")>>
                 /\ pc' = "loop"
            ELSE /\ pc' = "aborted"
                 /\ UNCHANGED <<dirs, total_files, overall_progress>>
    /\ log_data' = FreshLog
    /\ copied_file_hashes' = {}
    /\ processed_files_count' = 0
    /\ UNCHANGED <<program, walk, fs, pos, faultsLeft, hist, gui, walker>>

\* a faulty variant: the directory just listed stays among those to list
PendingKeepsListed(pending, d, found) == pending \cup found

\* the directories still to list after d was listed and showed `found'
Pending(pending, d, found) == (pending \ {d}) \cup found

\* the generator resumes: the files of the last listing are done, the next
\* directory is listed and its files are yielded
ListDir ==
    /\ program = "photo_organizer"
    /\ pc = "loop"
    /\ pos = Len(walk)
    /\ \E d \in todo :
         /\ \E w \in OrdersOf({SplitFile(p, fs[p]) : p \in FilesIn(d, fs)}) :
               walk' = walk \o w
         /\ todo' = Pending(todo, d, Subdirs(d, dirs))
         /\ listed' = listed \cup {d}
         /\ late' = late
    /\ UNCHANGED <<program, pc, structure_choice, fs, dirs, log_data, copied_file_hashes,
                   processed_files_count, total_files, pos, faultsLeft, hist,
                   overall_progress, gui>>

\* the steps of a run that follows the generator
WalkNext ==
    \/ WalkStartRun
    \/ ListDir
    \/ /\ ProcessNext
       /\ late' = late \cup {p \in DOMAIN fs' \ DOMAIN fs : p.dir \in listed}
       /\ UNCHANGED <<gui, todo, listed>>
    \/ todo = {} /\ WriteReport /\ UNCHANGED <<gui, walker>>

WalkSpec == WalkInit /\ [][WalkNext]_vars

\* the worker thread is scheduled as long as it has a step to take
WalkFairSpec == WalkSpec /\ WF_vars(WalkNext)

---------------------------------------------------------------------------
(* photo_organizer.py: the Tk window. The main thread runs the button      *)
(* handler and the callbacks scheduled with master.after; the worker       *)
(* thread runs run_organizer. The model follows the first MaxRuns runs of  *)
(* the window, and of the scheduled callbacks those that read log_data or  *)
(* change the button. The variables of organize_photos_core hold the call  *)
(* of the worker started last.                                             *)

\* update_summary_labels called n times: _update_summary_gui is scheduled
update_summary_labels(q, n) == q \o [i \in 1..n |-> "_update_summary_gui"]

\* the calls of summary_update_callback in the pass recorded as e
SummaryCalls(e) ==
    (IF e.copy.ok THEN 1 ELSE 0) + (IF e.raised THEN 1 ELSE 0)
    + (IF e.cleaned = "failed" THEN 1 ELSE 0)

\* a new worker thread is about to call organize_photos_core: its locals
\* are new, the files, the directories and log_data are those left behind
NewCall ==
    /\ pc' = "idle"
    /\ walk' = <<>>
    /\ copied_file_hashes' = {}
    /\ processed_files_count' = 0
    /\ total_files' = 0
    /\ pos' = 0
    /\ hist' = <<>>
    /\ overall_progress' = <<>>
    /\ UNCHANGED <<program, structure_choice, fs, dirs, log_data, faultsLeft>>

\* a faulty variant: the Start button is left enabled
start_organization_thread_enabled ==
    /\ start_button = "normal"
    /\ runs < MaxRuns
    /\ \E filled \in BOOLEAN :
         IF filled
         THEN /\ tk_queue' = update_summary_labels(tk_queue, 1)
              /\ start_button' = "normal"
              /\ threads' = threads + 1
              /\ log_access' = {}
              /\ runs' = runs + 1
              /\ NewCall
              /\ UNCHANGED walker
         ELSE UNCHANGED vars

\* the button handler, on the main thread; a disabled button calls nothing
start_organization_thread ==
    /\ start_button = "normal"
    /\ runs < MaxRuns
    /\ \E filled \in BOOLEAN :
         IF filled
         THEN /\ tk_queue' = update_summary_labels(tk_queue, 1)
              /\ start_button' = "disabled"
              /\ threads' = threads + 1
              /\ log_access' = {}
              /\ runs' = runs + 1
              /\ NewCall
              /\ UNCHANGED walker
         ELSE UNCHANGED vars

\* the worker thread: the head of organize_photos_core
WorkerStartRun ==
    /\ threads > 0
    /\ StartRun
    /\ tk_queue' = update_summary_labels(tk_queue, 1)
    /\ log_access' = log_access \cup {"worker"}
    /\ UNCHANGED <<start_button, threads, runs, walker>>

\* the worker thread: one pass of the loop body
WorkerProcessNext ==
    /\ threads > 0
    /\ ProcessNext
    /\ tk_queue' = update_summary_labels(tk_queue, SummaryCalls(Last(hist')))
    /\ log_access' = log_access \cup {"worker"}
    /\ UNCHANGED <<start_button, threads, runs, walker>>

\* the worker thread: the report
WorkerWriteReport ==
    /\ threads > 0
    /\ WriteReport
    /\ log_access' = log_access \cup {"worker"}
    /\ UNCHANGED <<start_button, threads, tk_queue, runs, walker>>

\* the worker thread: organize_photos_core has returned or raised
run_organizer ==
    /\ threads > 0
    /\ pc \in {"done", "aborted", "crashed"}
    /\ tk_queue' = Append(tk_queue, "enable_gui_elements")
    /\ threads' = threads - 1
    /\ UNCHANGED <<core, start_button, log_access, runs, walker>>

\* the main thread runs the oldest scheduled callback
mainloop ==
    /\ tk_queue # <<>>
    /\ tk_queue' = Tail(tk_queue)
    /\ IF Head(tk_queue) = "_update_summary_gui"
       THEN /\ log_access' = log_access \cup (IF threads > 0 THEN {"main"} ELSE {})
            /\ UNCHANGED start_button
       ELSE /\ start_button' = "normal"
            /\ UNCHANGED log_access
    /\ UNCHANGED <<core, threads, runs, walker>>

GuiNext ==
    \/ start_organization_thread
    \/ WorkerStartRun
    \/ WorkerProcessNext
    \/ WorkerWriteReport
    \/ run_organizer
    \/ mainloop

\* the window of a new process: log_data is the module's initial dictionary
GuiSpecInit ==
    /\ Init
    /\ log_data = FreshLog
    /\ Cardinality({p \in DOMAIN fs : p.dir \in {SourceDir, SubDir}}) <= MaxGuiFiles

GuiSpec == GuiSpecInit /\ [][GuiNext]_vars

---------------------------------------------------------------------------
(* pics.py: organize_photos_core and the button handler that calls it *)

PicsTempPath(f) == Path(TempDir, Name(f) \o ".jpg")

pics_convert_to_jpg(w, input_path, output_path, fault) ==
    IF input_path \notin DOMAIN w.fs \/ w.fs[input_path].conv # "ok"
    THEN [w |-> LogError(w, "convert"), ok |-> FALSE]
    ELSE IF fault
    THEN [w |-> LogError([w EXCEPT !.fs = WriteFile(@, output_path, Junk(w.fs[input_path]))],
                         "convert"),
          ok |-> FALSE]
    ELSE [w |-> [w EXCEPT !.fs = WriteFile(@, output_path, Converted(w.fs[input_path]))],
          ok |-> TRUE]

\* shutil.copy2(src, dst): writes over dst; ok = FALSE stands for the exception
copy2(w, src, dst, fault) ==
    IF src \notin DOMAIN w.fs \/ fault = "open"
    THEN [w |-> w, ok |-> FALSE, events |-> <<>>]
    ELSE CASE fault = "write" ->
                [w |-> [w EXCEPT !.fs = WriteFile(@, dst, Partial(w.fs[src], <<>>))],
                 ok |-> FALSE, events |-> <<>>]
           [] fault = "stat" ->
                [w |-> [w EXCEPT !.fs = WriteFile(@, dst, [w.fs[src] EXCEPT !.mtime = DateNow])],
                 ok |-> FALSE, events |-> <<>>]
           [] OTHER ->
                [w |-> [w EXCEPT !.fs = WriteFile(@, dst, w.fs[src])],
                 ok |-> TRUE, events |-> <<>>]

\* the except branch of pics.py: the original goes to 'Errors' under its own name
PicsFailed(w, f, flt, conv, h, copy) ==
    With(copy2(w, FilePath(f), Path(errors_dir, Name(f)), flt.err),
         LAMBDA r :
           Outcome(LogError(IF r.ok THEN Count(r.w, "files_moved_to_errors") ELSE r.w, "process"),
                   "errors", copy,
                   CopyCall(w, FilePath(f), Path(errors_dir, Name(f)), f.base, f.ext, r),
                   conv, h, TRUE))

\* a copy into folder d under the name of src; a failure goes to the except branch
PicsRouted(w, f, route, src, d, flt, counter, h) ==
    With(copy2(w, src, Path(d, src.name), flt.main),
         LAMBDA r :
           IF r.ok
           THEN Outcome(Count(r.w, counter), route,
                        CopyCall(w, src, Path(d, src.name), f.base, f.ext, r), NoCopy, "na", h, FALSE)
           ELSE PicsFailed(r.w, f, flt, "na", h,
                           CopyCall(w, src, Path(d, src.name), f.base, f.ext, r)))

PicsOrganize(w, f, route, src, root, flt, choice, counter, h, date) ==
    [(IF flt.mkdir /\ TargetFolder(root, date, choice) \notin w.dirs
      THEN PicsFailed(w, f, flt, "na", h, NoCopy)
      ELSE PicsRouted(MakeDirs(w, root, date, choice), f, route, src,
                      TargetFolder(root, date, choice), flt, counter, h))
       EXCEPT !.mkdir = TargetFolder(root, date, choice) \notin w.dirs]

\* the hash is looked up as it is, None (0) included
PicsRouteImage(w, f, src, h, flt, choice) ==
    IF h \in w.hashes
    THEN PicsRouted(w, f, "duplicate", src, suspect_duplicates_dir, flt,
                    "suspect_duplicates_copied", h)
    ELSE PicsOrganize([w EXCEPT !.hashes = @ \cup {h}], f, "organized", src, DestDir, flt, choice,
                      "files_copied", h, get_file_date(w, src, ".jpg"))

PicsHashAndRoute(w, f, src, flt, choice) ==
    With(calculate_image_hash(w, src),
         LAMBDA hr : PicsRouteImage(hr.w, f, src, hr.h, flt, choice))

PicsProcessImage(w, f, flt, choice) ==
    IF Lower(f.ext) \in CONVERTIBLE_IMAGE_EXTENSIONS
    THEN With(pics_convert_to_jpg(w, FilePath(f), PicsTempPath(f), flt.conv),
              LAMBDA cv : IF ~cv.ok
                          THEN PicsFailed(cv.w, f, flt, "fail", 0, NoCopy)
                          ELSE [PicsHashAndRoute(cv.w, f, PicsTempPath(f), flt, choice)
                                   EXCEPT !.conv = "ok"])
    ELSE PicsHashAndRoute(w, f, FilePath(f), flt, choice)

\* the finally branch of pics.py: os.remove is not guarded
PicsCleanup(o, temp_jpg_path, fault) ==
    IF temp_jpg_path # NoPath /\ Exists(o.w, temp_jpg_path)
    THEN IF fault THEN [o EXCEPT !.cleaned = "failed", !.escaped = TRUE]
         ELSE [o EXCEPT !.w.fs = RemoveFile(@, temp_jpg_path), !.cleaned = "removed"]
    ELSE o

PicsProcessFile(w, f, flt, choice) ==
    PicsCleanup(IF Lower(f.ext) \in ALL_IMAGE_EXTENSIONS THEN PicsProcessImage(w, f, flt, choice)
                ELSE IF Lower(f.ext) \in VIDEO_EXTENSIONS
                THEN PicsOrganize(w, f, "video", FilePath(f), videos_base_dir, flt, choice,
                                  "videos_copied", 0, get_file_date(w, FilePath(f), Lower(f.ext)))
                ELSE PicsRouted(w, f, "other", FilePath(f), manually_check_dir, flt,
                                "manually_checked_files", 0),
                IF Lower(f.ext) \in CONVERTIBLE_IMAGE_EXTENSIONS THEN PicsTempPath(f) ELSE NoPath,
                flt.remove)

PicsInit == InitOf("pics")

\* the button handler: the source check, then the head of organize_photos_core
PicsStartRun ==
    /\ program = "pics"
    /\ pc = "idle"
    /\ \E choice \in {"YYYY", "YYYY/MM"}, canCreate \in BOOLEAN :
         /\ structure_choice' = choice
         /\ IF SourceDir \notin dirs
            THEN pc' = "aborted" /\ UNCHANGED <<dirs, walk, total_files>>
            ELSE /\ \E w \in Orders(fs) : walk' = w /\ total_files' = Len(w)
                 /\ IF ChecksPass(dirs, fs, canCreate)
                    THEN pc' = "loop" /\ dirs' = dirs \cup {DestDir} \cup SpecialDirs
                    ELSE pc' = "crashed" /\ UNCHANGED dirs
    /\ copied_file_hashes' = {}
    /\ processed_files_count' = 0
    /\ UNCHANGED <<program, fs, log_data, pos, faultsLeft, hist, overall_progress>>

\* one pass of the loop body; `continue' skips the count at its end
PicsProcessNext ==
    /\ program = "pics"
    /\ pc = "loop"
    /\ pos < Len(walk)
    /\ \E flt \in {x \in Faults : FaultCount(x) <= faultsLeft}, f \in {walk[pos + 1]} :
         \E o \in {PicsProcessFile(World(fs, dirs, log_data, copied_file_hashes), f, flt,
                                   structure_choice)} :
             /\ FaultsApply(o, f, flt, fs)
             /\ fs' = o.w.fs
             /\ dirs' = o.w.dirs
             /\ log_data' = o.w.log
             /\ copied_file_hashes' = o.w.hashes
             /\ faultsLeft' = faultsLeft - FaultCount(flt)
             /\ hist' = Append(hist, HistEntry(o, flt))
             /\ pc' = IF o.escaped THEN "crashed" ELSE pc
             /\ IF o.escaped \/ o.route = "duplicate"
                THEN UNCHANGED <<processed_files_count, overall_progress>>
                ELSE /\ processed_files_count' = processed_files_count + 1
                     /\ overall_progress' =
                           Append(overall_progress,
                                  Overall(processed_files_count + 1, total_files, "file"))
    /\ pos' = pos + 1
    /\ UNCHANGED <<program, structure_choice, walk, total_files>>

\* after the loop: the closing status, no report file
PicsFinish ==
    /\ program = "pics"
    /\ pc = "loop"
    /\ pos = Len(walk)
    /\ pc' = "done"
    /\ UNCHANGED <<program, structure_choice, walk, fs, dirs, log_data, copied_file_hashes,
                   processed_files_count, total_files, pos, faultsLeft, hist, overall_progress>>

PicsNext ==
    \/ PicsStartRun /\ UNCHANGED <<gui, walker>>
    \/ PicsProcessNext /\ UNCHANGED <<gui, walker>>
    \/ PicsFinish /\ UNCHANGED <<gui, walker>>

PicsSpec == PicsInit /\ [][PicsNext]_vars

---------------------------------------------------------------------------
(* Vocabulary of the properties *)

Desktop == program = "photo_organizer"

Processed == 1..Len(hist)

Dates == {DateA, DateB, DateNow}

\* the year and year/month folders of the organized tree
OrganizedFolders == {TargetFolder(DestDir, d, c) : d \in Dates, c \in {"YYYY", "YYYY/MM"}}

VideoFolders == {TargetFolder(videos_base_dir, d, c) : d \in Dates, c \in {"YYYY", "YYYY/MM"}}

\* the copy calls made for file i
Calls(i) == {c \in {hist[i].copy, hist[i].errcopy} : c.called}

\* a copy call made for file i names a destination in folder set ds
Targets(i, ds) == \E c \in Calls(i) : c.dst.dir \in ds

\* a copy call made for file i left the whole file in folder set ds
PlacedIn(i, ds) ==
    \E c \in Calls(i) : /\ c.dst.dir \in ds
                        /\ c.dst \in DOMAIN fs
                        /\ fs[c.dst].id = c.id

\* file j has the fingerprint of an earlier file
FirstWith(j) == CHOOSE i \in Processed : hist[i].h = hist[j].h /\ \A k \in 1..(i - 1) : hist[k].h # hist[j].h

Repeats(j) == hist[j].h # 0 /\ FirstWith(j) < j

HowMany(P(_)) == Cardinality({i \in Processed : P(i)})

---------------------------------------------------------------------------
(* C1 as stated: of two images with equal fingerprints the first is sent   *)
(* to the organized tree; the later one is copied into 'Suspect            *)
(* Duplicates', counted in suspect_duplicates_copied, not counted in       *)
(* files_copied and not placed in the organized tree.                      *)
C1_AsStated ==
    Desktop =>
        /\ \A j \in Processed : Repeats(j) =>
              /\ hist[FirstWith(j)].route = "organized"
              /\ PlacedIn(FirstWith(j), OrganizedFolders)
              /\ hist[j].route = "duplicate"
              /\ PlacedIn(j, {suspect_duplicates_dir})
              /\ ~Targets(j, OrganizedFolders)
        /\ log_data.suspect_duplicates_copied = HowMany(LAMBDA j : Repeats(j))

(* C1, what the loop does guarantee under failing copies: the first image  *)
(* with a fingerprint is the one sent on to                                *)
(* the organized tree (it ends in 'Errors' only if making its folder       *)
(* fails); every later one is routed to 'Suspect Duplicates', is never     *)
(* placed in the organized tree nor counted in files_copied, and it lies   *)
(* in 'Suspect Duplicates' and is counted in suspect_duplicates_copied     *)
(* when its copy succeeds (it is not counted when the copy fails).         *)
C1_FirstKeptLaterSuspect ==
    Desktop =>
        /\ \A j \in Processed : Repeats(j) =>
              /\ hist[FirstWith(j)].route \in {"organized", "errors"}
              /\ hist[FirstWith(j)].route = "errors" => hist[FirstWith(j)].flt.mkdir
              /\ hist[FirstWith(j)].route = "organized" =>
                    hist[FirstWith(j)].copy.dst.dir \in OrganizedFolders
              /\ hist[FirstWith(j)].copy.ok => PlacedIn(FirstWith(j), OrganizedFolders)
              /\ hist[j].route = "duplicate"
              /\ hist[j].copy.called /\ hist[j].copy.dst.dir = suspect_duplicates_dir
              /\ ~hist[j].errcopy.called
              /\ hist[j].copy.ok => PlacedIn(j, {suspect_duplicates_dir})
              /\ ~Targets(j, OrganizedFolders)
        /\ log_data.suspect_duplicates_copied =
              HowMany(LAMBDA j : Repeats(j) /\ hist[j].copy.ok)
        /\ log_data.files_copied =
              HowMany(LAMBDA i : hist[i].h # 0 /\ ~Repeats(i) /\ hist[i].copy.ok)

\* two images with one fingerprint were processed and both copies succeeded
C1_Witness ==
    /\ Desktop
    /\ \E j \in Processed : /\ Repeats(j)
                            /\ hist[j].copy.ok
                            /\ hist[FirstWith(j)].copy.ok
                            /\ hist[j].conv = "ok"

---------------------------------------------------------------------------
\* the destination folders: everything but the source tree and the temp area
DestinationPaths(f) == {p \in DOMAIN f : p.dir \notin {SourceDir, SubDir, TempDir, ParentDir}}

\* the name of call c is the wanted name when that was free, else the
\* wanted name with the smallest free suffix
SmallestFreeName(c) ==
    /\ c.dst.name \notin c.present
    /\ \/ c.dst.name = c.base \o c.ext
       \/ \E k \in 1..(Cardinality(c.present) + 1) :
             /\ c.dst.name = Suffixed(c.base, k, c.ext)
             /\ (c.base \o c.ext) \in c.present
             /\ \A m \in 1..(k - 1) : Suffixed(c.base, m, c.ext) \in c.present

NewCalls(h) == {c \in {h.copy, h.errcopy} : c.called}

(* C2: every destination path handed to copy_file_with_progress was free   *)
(* when it was resolved, being folder/name or else folder/base_k.ext for   *)
(* the smallest free k >= 1, and a pass of the loop leaves every file that *)
(* was already in the destination in place with its content.               *)
C2_NeverOverwrites ==
    [][(Desktop /\ Len(hist') = Len(hist) + 1) =>
          /\ \A c \in NewCalls(hist'[Len(hist')]) : SmallestFreeName(c)
          /\ \A p \in DestinationPaths(fs) : p \in DOMAIN fs' /\ fs'[p] = fs[p]]_vars

\* a copy went to a.._2.. because the name and its first suffix were taken
C2_Witness ==
    /\ Desktop
    /\ \E i \in Processed : \E c \in Calls(i) :
          /\ c.ok
          /\ c.dst.name = Suffixed(c.base, 2, c.ext)
          /\ c.dst \in DOMAIN fs
          /\ Path(c.dst.dir, c.base \o c.ext) \in DOMAIN fs

(* C3: in pics.py no two files of a run get the same destination path, and *)
(* the copy of the first stays as it was written.                          *)
C3_DistinctDestinations ==
    program = "pics" =>
        \A i, j \in Processed : i < j =>
            \A ci \in Calls(i), cj \in Calls(j) :
                /\ ci.dst # cj.dst
                /\ ci.ok => ci.dst \in DOMAIN fs /\ fs[ci.dst].id = ci.id

(* C4: a failed transfer to the organized tree, 'Videos', 'Suspect         *)
(* Duplicates' or 'Manually Check' sends the original to 'Errors', where   *)
(* it is counted in files_moved_to_errors.                                 *)
C4_FailedTransferGoesToErrors ==
    Desktop =>
        /\ \A i \in Processed : (hist[i].copy.called /\ ~hist[i].copy.ok) =>
              /\ hist[i].errcopy.called
              /\ hist[i].errcopy.src = FilePath(walk[i])
              /\ hist[i].errcopy.dst.dir = errors_dir
        /\ log_data.files_moved_to_errors >=
              HowMany(LAMBDA i : hist[i].copy.called /\ ~hist[i].copy.ok /\ hist[i].flt.err = "none")

---------------------------------------------------------------------------
\* file f fails on its own content: it cannot be converted or hashed
OwnFailure(f) ==
    /\ Lower(f.ext) \in ALL_IMAGE_EXTENSIONS
    /\ \/ f.c.fp = 0
       \/ Lower(f.ext) \in CONVERTIBLE_IMAGE_EXTENSIONS /\ f.c.conv # "ok"

\* the routes file f takes when nothing goes wrong around it
NormalRoutes(f) ==
    IF OwnFailure(f) THEN {"errors"}
    ELSE IF Lower(f.ext) \in ALL_IMAGE_EXTENSIONS THEN {"organized", "duplicate"}
    ELSE IF Lower(f.ext) \in VIDEO_EXTENSIONS THEN {"video"}
    ELSE {"other"}

(* C5: when the conversion of one file fails, its original is copied into  *)
(* 'Errors' and counted once in files_moved_to_errors, and every other     *)
(* file of the traversal still takes its normal route.                     *)
C5_ConversionFailureIsLocal ==
    Desktop =>
        /\ \A i \in Processed : hist[i].conv = "fail" =>
              /\ hist[i].route = "errors"
              /\ hist[i].flt.err = "none" =>
                    /\ hist[i].errcopy.ok
                    /\ hist[i].errcopy.src = FilePath(walk[i])
                    /\ hist[i].errcopy.id = walk[i].c.id
                    /\ PlacedIn(i, {errors_dir})
              /\ \A j \in Processed \ {i} :
                    hist[j].flt = NoFaults => hist[j].route \in NormalRoutes(walk[j])
        /\ log_data.files_moved_to_errors = HowMany(LAMBDA i : hist[i].errcopy.ok)

\* the directory the converted temporary of file f is written to
TempArea(f) == IF Desktop THEN f.dir ELSE TempDir

SameFilesIn(d, f, g) ==
    /\ Listing(f, d) = Listing(g, d)
    /\ \A p \in DOMAIN f : p.dir = d => g[p] = f[p]

(* C6: when the pass for a convertible image ends (its os.remove not       *)
(* failing), the directory the converted .jpg was written to holds exactly *)
(* the files, with the contents, it held before the pass.                  *)
C6_TempAreaRestored ==
    [][(/\ Len(hist') = Len(hist) + 1
        /\ Lower(walk[Len(hist')].ext) \in CONVERTIBLE_IMAGE_EXTENSIONS
        /\ ~hist'[Len(hist')].flt.remove)
          => SameFilesIn(TempArea(walk[Len(hist')]), fs, fs')]_vars

(* C7: an image whose fingerprint cannot be computed goes to 'Errors' and  *)
(* is never sent to the organized tree or to 'Suspect Duplicates'.         *)
C7_HashFailureIsError ==
    \A i \in Processed :
        (/\ Lower(walk[i].ext) \in ALL_IMAGE_EXTENSIONS
         /\ hist[i].conv # "fail"
         /\ hist[i].h = 0)
          => /\ hist[i].route = "errors"
             /\ ~Targets(i, OrganizedFolders \cup {suspect_duplicates_dir})

---------------------------------------------------------------------------
\* the loop is sequential code: a pass that can be taken is taken
FairSpec ==
    /\ Spec
    /\ WF_vars(ProcessNext /\ UNCHANGED <<gui, walker>>)
    /\ WF_vars(WriteReport /\ UNCHANGED <<gui, walker>>)

\* no failure has left the per-file try/except/finally, the files are taken
\* one after the other, and a finished run has visited all and left the report
NoFailureEscapes ==
    Desktop =>
        /\ pc # "crashed"
        /\ \A i \in Processed : ~hist[i].escaped
        /\ pc \in {"loop", "done"} => pos = Len(hist) /\ pos <= Len(walk)
        /\ pc = "done" => /\ Len(hist) = Len(walk)
                          /\ log_file_path \in DOMAIN fs
                          /\ fs[log_file_path] = ReportContent

(* C8: once the checks have passed, no failure of a file leaves the        *)
(* per-file try/except/finally: whatever fails, the loop visits every file *)
(* of the traversal and the run ends with photo_organizer_log.txt written  *)
(* in the destination root.                                                *)
C8_RunCompletes ==
    /\ []NoFailureEscapes
    /\ (Desktop /\ pc = "loop") ~> (pc = "done")

\* a run ended although a file failed and its copy into 'Errors' failed too,
\* or the removal of a converted temporary failed
C8_Witness ==
    /\ Desktop
    /\ pc = "done"
    /\ Len(walk) >= 2
    /\ \E i \in Processed :
          \/ hist[i].raised /\ hist[i].errcopy.called /\ ~hist[i].errcopy.ok
          \/ hist[i].cleaned = "failed"

(* C9: when the source is not a directory, or the destination cannot be    *)
(* created or is not a directory, the run returns before the traversal:    *)
(* no file or folder is created or changed, the counters stay 0, nothing   *)
(* is processed and no report is written; a run that goes on has a source  *)
(* directory and a destination directory.                                  *)
C9_AbortsBeforeTraversal ==
    [][(Desktop /\ pc = "idle" /\ pc' # "idle") =>
          /\ (SourceDir \notin dirs \/ DestAsFile \in DOMAIN fs) => pc' = "aborted"
          /\ pc' = "aborted" => /\ fs' = fs
                                /\ dirs' = dirs
                                /\ log_data' = FreshLog
                                /\ hist' = <<>>
                                /\ walk' = <<>>
                                /\ log_file_path \notin DOMAIN fs'
          /\ pc' # "aborted" => /\ pc' = "loop"
                                /\ SourceDir \in dirs
                                /\ DestDir \in dirs'
                                /\ SpecialDirs \subseteq dirs']_vars

\* a run was refused although the source holds files: the destination is a
\* plain file or could not be created
C9_Witness ==
    /\ Desktop
    /\ pc = "aborted"
    /\ SourceDir \in dirs
    /\ \E p \in DOMAIN fs : p.dir = SourceDir
    /\ SpecialDirs \cap dirs = {}

\* e1 <= e2 as percentages; the denominators are equal or one of them is 1
PctLeq(e1, e2) ==
    IF e1.den = e2.den THEN e1.num <= e2.num ELSE e1.num * e2.den <= e2.num * e1.den

PctIs(e, n) == e.num = n * e.den

(* C10: the percentages of a successful copy_file_with_progress call never *)
(* decrease, lie in 0..100 and end with exactly 100, also for an empty     *)
(* file; a failed call ends with the error event (0, 'Error with <name>')  *)
(* and returns False.                                                      *)
C10_ProgressMonotone ==
    Desktop =>
        \A i \in Processed : \A c \in Calls(i) :
            /\ Len(c.events) >= 1
            /\ c.ok => /\ \A k \in 1..Len(c.events) :
                             /\ c.events[k].num >= 0
                             /\ c.events[k].num <= 100 * c.events[k].den
                             /\ c.events[k].label = c.src.name
                      /\ \A k \in 1..(Len(c.events) - 1) : PctLeq(c.events[k], c.events[k + 1])
                      /\ PctIs(Last(c.events), 100)
            /\ ~c.ok <=> Last(c.events) = ErrorEvent(c.src.name)

\* successful copies of an empty file and of a file of several chunks
C10_Witness ==
    /\ Desktop
    /\ \E i \in Processed : \E c \in Calls(i) : c.ok /\ Len(c.events) = 1
    /\ \E i \in Processed : \E c \in Calls(i) : c.ok /\ Len(c.events) >= 3
    /\ \E i \in Processed : \E c \in Calls(i) : ~c.ok /\ Len(c.events) >= 2

---------------------------------------------------------------------------
---------------------------------------------------------------------------
(* The dispatch of the loop body on its own: file names with extensions in *)
(* every spelling are drawn and the branch each takes is recorded.         *)

MaxClassified == 2

Extensions ==
    {".jpg", ".JPG", ".Jpg", ".jpeg", ".JPEG", ".png", ".PNG",
     ".cr2", ".CR2", ".raw", ".tif", ".TIF", ".Tif", ".tiff", ".heic", ".HEIC",
     ".mp4", ".MP4", ".Mp4", ".mov", ".MOV", ".avi", ".mkv", ".webm", ".flv",
     ".txt", ".TXT", ".gif", ".GIF", ".jpg_", ".mp3", ""}

ClassifyInit ==
    /\ program = "classifier"
    /\ pc = "loop"
    /\ structure_choice = ""
    /\ walk = <<>>
    /\ fs = FsOf({})
    /\ dirs = {SourceDir}
    /\ log_data = FreshLog
    /\ copied_file_hashes = {}
    /\ processed_files_count = 0
    /\ total_files = 0
    /\ pos = 0
    /\ faultsLeft = 0
    /\ hist = <<>>
    /\ overall_progress = <<>>
    /\ GuiInit

\* the head of one pass: the extension is split off, lower-cased and dispatched on
ClassifyNext ==
    /\ program = "classifier"
    /\ Len(walk) < MaxClassified
    /\ \E ext \in Extensions :
         /\ walk' = Append(walk, File(SourceDir, "IMG", ext, OldContent(1)))
         /\ hist' = Append(hist, [tag |-> Classify(ext)])
    /\ pos' = pos + 1
    /\ UNCHANGED <<program, pc, structure_choice, fs, dirs, log_data, copied_file_hashes,
                   processed_files_count, total_files, faultsLeft, overall_progress>>
    /\ UNCHANGED <<gui, walker>>

ClassifySpec == ClassifyInit /\ [][ClassifyNext]_vars

Tags == {"native", "convertible", "video", "other"}

(* C12: every file takes exactly one of the four branches, chosen by its   *)
(* lower-cased extension alone: the three extension sets are pairwise      *)
(* disjoint, an extension in none of them (no extension included) takes    *)
(* 'other', and two spellings of one extension take the same branch.       *)
C12_FourRoutesByExtension ==
    program = "classifier" =>
        /\ IMAGE_EXTENSIONS \cap CONVERTIBLE_IMAGE_EXTENSIONS = {}
        /\ IMAGE_EXTENSIONS \cap VIDEO_EXTENSIONS = {}
        /\ CONVERTIBLE_IMAGE_EXTENSIONS \cap VIDEO_EXTENSIONS = {}
        /\ \A i \in 1..Len(hist) :
              /\ hist[i].tag \in Tags
              /\ hist[i].tag = "native" <=> Lower(walk[i].ext) \in IMAGE_EXTENSIONS
              /\ hist[i].tag = "convertible" <=> Lower(walk[i].ext) \in CONVERTIBLE_IMAGE_EXTENSIONS
              /\ hist[i].tag = "video" <=> Lower(walk[i].ext) \in VIDEO_EXTENSIONS
              /\ hist[i].tag = "other" <=>
                    Lower(walk[i].ext) \notin (ALL_IMAGE_EXTENSIONS \cup VIDEO_EXTENSIONS)
        /\ \A i, j \in 1..Len(hist) :
              Lower(walk[i].ext) = Lower(walk[j].ext) => hist[i].tag = hist[j].tag

\* IMG.JPG and IMG.jpg were both dispatched, to the same branch
C12_Witness ==
    /\ program = "classifier"
    /\ \E i, j \in 1..Len(hist) :
          /\ walk[i].ext = ".JPG" /\ walk[j].ext = ".jpg"
          /\ hist[i].tag = "native" /\ hist[j].tag = "native"

---------------------------------------------------------------------------
\* the messages a pass appended to the error list
NewErrors(old, new) == {new.errors[k] : k \in (Len(old.errors) + 1)..Len(new.errors)}

\* the paths whose file was created, changed or removed
Touched(f, g) ==
    {p \in DOMAIN f \cup DOMAIN g : p \notin DOMAIN f \/ p \notin DOMAIN g \/ f[p] # g[p]}

(* C13: a pass for a video or an 'other' file converts nothing and hashes  *)
(* nothing, leaves copied_file_hashes, files_copied,                       *)
(* suspect_duplicates_copied and files_converted as they were, and writes  *)
(* only its copy: a video under 'Videos/<year>[/<month>]', an 'other' file *)
(* in 'Manually Check', or the original in 'Errors' after a failure.       *)
C13_VideoAndOtherSkipImageSteps ==
    [][(/\ Desktop
        /\ Len(hist') = Len(hist) + 1
        /\ Classify(walk[Len(hist')].ext) \in {"video", "other"})
          => /\ hist'[Len(hist')].conv = "na"
             /\ hist'[Len(hist')].h = 0
             /\ NewErrors(log_data, log_data') \cap {"convert", "hash", "remove"} = {}
             /\ copied_file_hashes' = copied_file_hashes
             /\ log_data'.files_copied = log_data.files_copied
             /\ log_data'.suspect_duplicates_copied = log_data.suspect_duplicates_copied
             /\ log_data'.files_converted = log_data.files_converted
             /\ hist'[Len(hist')].copy.called =>
                   /\ hist'[Len(hist')].copy.src = FilePath(walk[Len(hist')])
                   /\ hist'[Len(hist')].copy.dst.dir =
                         IF Classify(walk[Len(hist')].ext) = "other"
                         THEN manually_check_dir
                         ELSE TargetFolder(videos_base_dir,
                                           get_file_date(World(fs, dirs, log_data, copied_file_hashes),
                                                         FilePath(walk[Len(hist')]),
                                                         Lower(walk[Len(hist')].ext)),
                                           structure_choice)
             /\ hist'[Len(hist')].errcopy.called =>
                   /\ hist'[Len(hist')].raised
                   /\ hist'[Len(hist')].errcopy.src = FilePath(walk[Len(hist')])
                   /\ hist'[Len(hist')].errcopy.dst.dir = errors_dir
             /\ Classify(walk[Len(hist')].ext) = "other" =>
                   hist'[Len(hist')].copy.called /\ ~hist'[Len(hist')].errcopy.called
             /\ Touched(fs, fs') \subseteq
                   {c.dst : c \in NewCalls(hist'[Len(hist')])}]_vars

\* a video and an 'other' file were copied, after an image had been organized
C13_Witness ==
    /\ Desktop
    /\ copied_file_hashes # {}
    /\ \E i, j \in Processed :
          /\ hist[i].route = "video" /\ hist[i].copy.ok
          /\ hist[i].copy.dst.dir \in VideoFolders
          /\ hist[j].route = "other" /\ hist[j].copy.ok
          /\ hist[j].copy.dst.dir = manually_check_dir

---------------------------------------------------------------------------
\* image i was accepted: copied into the organized tree
Accepted(i) ==
    /\ hist[i].route = "organized"
    /\ hist[i].copy.ok
    /\ hist[i].copy.dst.dir \in OrganizedFolders

(* C14: a file copied into 'Suspect Duplicates' has the fingerprint of an  *)
(* earlier file of the run that was accepted: copied into the organized   *)
(* tree and counted in files_copied.                                       *)
C14_DuplicateOfAccepted ==
    Desktop =>
        /\ \A j \in Processed :
              (hist[j].route = "duplicate" /\ hist[j].copy.ok) =>
                  \E i \in 1..(j - 1) : hist[i].h = hist[j].h /\ Accepted(i)
        /\ log_data.files_copied = HowMany(Accepted)

---------------------------------------------------------------------------
(* C15: a convertible image without a capture date is put in the folder of *)
(* the year (and month) its source file was last modified.                 *)
C15_SourceMtimeUsed ==
    Desktop =>
        \A i \in Processed :
            (/\ Classify(walk[i].ext) = "convertible"
             /\ hist[i].route = "organized"
             /\ walk[i].c.exif = NoExif)
              => hist[i].copy.dst.dir = TargetFolder(DestDir, walk[i].c.mtime, structure_choice)

---------------------------------------------------------------------------
\* the overall-progress updates made by the passes of the loop
FileUpdates == SelectSeq(overall_progress, LAMBDA e : e.at = "file")

(* C16: while a run goes on, each file taken from the traversal, whatever  *)
(* its route, has produced exactly one overall-progress update (processed, *)
(* total); the processed values are 1, 2, 3, ... and after the last file   *)
(* the processed count equals the pre-scanned total.                       *)
C16_OneProgressUpdatePerFile ==
    pc \in {"loop", "done"} =>
        /\ Len(FileUpdates) = Len(hist)
        /\ \A k \in 1..Len(FileUpdates) :
              FileUpdates[k].processed = k /\ FileUpdates[k].total = total_files
        /\ processed_files_count = Len(hist)
        /\ pc = "done" => processed_files_count = total_files

---------------------------------------------------------------------------
(* C17: at the start of every call of organize_photos_core, also when an   *)
(* earlier run of the same process or session has left its statistics,    *)
(* all counters are 0 and the error list is empty.                         *)
C17_FreshStatisticsPerRun ==
    [][(/\ pc = "idle"
        /\ pc' # "idle"
        /\ program = "pics" => pc' # "aborted")
          => log_data' = FreshLog]_vars

---------------------------------------------------------------------------
(* C19: in photo_organizer.py the per-file progress events of every pass   *)
(* of the loop end with (100, "Done."), on every route.                    *)
FileProgress(e) == e.copy.events \o e.errcopy.events \o e.after

C19_EveryFileEndsDone ==
    Desktop =>
        \A i \in 1..Len(hist) :
            /\ FileProgress(hist[i]) # <<>>
            /\ Last(FileProgress(hist[i])) = DoneEvent

---------------------------------------------------------------------------
(* C20: a run of photo_organizer.py leaves the source tree as it found it: *)
(* between two passes of the loop and at the end of the run, the files     *)
(* under the source directory are the files listed there before the run,  *)
(* with the same content. Stated for the runs in which no operation has   *)
(* failed; a failing os.remove leaves the converted file behind as well.  *)
SourceTree(files) == [p \in {q \in DOMAIN files : q.dir \in {SourceDir, SubDir}} |-> files[p]]

C20_SourceTreeUnchanged ==
    (Desktop /\ pc \in {"loop", "done"} /\ faultsLeft = MaxFaults)
        => SourceTree(fs) = SourceTree(SourceFs(walk))

---------------------------------------------------------------------------
(* C18: in the desktop program log_data is accessed by one thread only     *)
(* while a worker thread is alive: the main thread does not read it.       *)
C18_SingleThreadAccess == Desktop => ~({"worker", "main"} \subseteq log_access)

---------------------------------------------------------------------------
(* C21: in photo_organizer.py every pass of the loop increments at most    *)
(* one of the five category counters, by one, and only the counter of the  *)
(* route the pass took and only after the copy of that route returned      *)
(* success; so the sum of the five counters never exceeds                  *)
(* processed_files_count.                                                  *)
Categories ==
    {"files_copied", "videos_copied", "suspect_duplicates_copied",
     "manually_checked_files", "files_moved_to_errors"}

CategorySum(log) ==
    log.files_copied + log.videos_copied + log.suspect_duplicates_copied
    + log.manually_checked_files + log.files_moved_to_errors

CounterOf(route) ==
    CASE route = "organized" -> "files_copied"
      [] route = "video" -> "videos_copied"
      [] route = "duplicate" -> "suspect_duplicates_copied"
      [] route = "other" -> "manually_checked_files"
      [] OTHER -> "files_moved_to_errors"

\* the copy of the pass recorded as e that feeds counter c returned success
CopySucceeded(e, c) ==
    IF c = "files_moved_to_errors" THEN e.errcopy.called /\ e.errcopy.ok
    ELSE e.copy.called /\ e.copy.ok

C21_OneCounterPerFile ==
    /\ [](Desktop /\ pc # "idle" => CategorySum(log_data) <= processed_files_count)
    /\ [][(Desktop /\ Len(hist') = Len(hist) + 1) =>
            /\ CategorySum(log_data') - CategorySum(log_data) \in {0, 1}
            /\ \A c \in Categories :
                  /\ log_data'[c] - log_data[c] \in {0, 1}
                  /\ log_data'[c] = log_data[c] + 1 =>
                        /\ c = CounterOf(Last(hist').route)
                        /\ CopySucceeded(Last(hist'), c)]_vars

\* two files are done: the copy of one failed and it was not counted, the
\* other was counted once
C21_Witness ==
    /\ Desktop
    /\ processed_files_count = 2
    /\ CategorySum(log_data) = 1
    /\ \E i \in Processed : hist[i].copy.called /\ ~hist[i].copy.ok /\ ~hist[i].raised
    /\ \E i \in Processed : hist[i].copy.ok

---------------------------------------------------------------------------
(* C22: in the desktop window at most one worker thread runs               *)
(* organize_photos_core at any time: while a worker is alive the Start     *)
(* button is disabled and no run is started, a run is started only from    *)
(* an enabled button and leaves it disabled, and the button goes back to   *)
(* enabled only when enable_gui_elements runs after the worker has left    *)
(* organize_photos_core.                                                   *)
Returned == pc \in {"done", "aborted", "crashed"}

C22_OneWorkerAtATime ==
    /\ [](Desktop => threads <= 1 /\ (threads > 0 => start_button = "disabled"))
    /\ [][Desktop =>
            /\ runs' # runs =>
                  threads = 0 /\ threads' = 1 /\ start_button = "normal"
                  /\ start_button' = "disabled"
            /\ (start_button = "disabled" /\ start_button' = "normal") =>
                  /\ threads = 0
                  /\ Returned
                  /\ Head(tk_queue) = "enable_gui_elements"]_vars

\* the second run of the window is in its loop, after the first has returned
\* and the button was enabled again
C22_Witness ==
    /\ Desktop
    /\ runs = 2
    /\ threads = 1
    /\ pc = "loop"
    /\ pos >= 1
    /\ start_button = "disabled"

---------------------------------------------------------------------------
(* C23: a run of photo_organizer.py whose destination is the source        *)
(* directory or lies inside it terminates: every directory is listed at    *)
(* most once, the files yielded by a listing are those the directory held  *)
(* then, a file the run created in a directory already listed is never     *)
(* processed, and the run reaches the report.                              *)
WalkPaths == {FilePath(walk[k]) : k \in 1..Len(walk)}

DestinationInSource == ParentDir \in listed \/ (DestDir \in listed /\ SourceDir \notin listed)

C23_TraversalTerminates ==
    /\ [](/\ todo \cap listed = {}
          /\ WalkPaths \cap late = {}
          /\ \A i, j \in 1..Len(walk) : i < j => FilePath(walk[i]) # FilePath(walk[j])
          /\ \A k \in 1..Len(walk) : walk[k].dir \in listed)
    /\ [][walk' # walk =>
            \E d \in todo \ listed :
               /\ listed' = listed \cup {d}
               /\ Len(walk') >= Len(walk)
               /\ SubSeq(walk', 1, Len(walk)) = walk
               /\ \A k \in (Len(walk) + 1)..Len(walk') :
                     walk'[k].dir = d /\ FilePath(walk'[k]) \in DOMAIN fs]_vars
    /\ <>(pc \in {"done", "aborted"})
    /\ [](pc = "done" => todo = {} /\ pos = Len(walk) /\ log_file_path \in DOMAIN fs)

\* a run over a source that contains its destination is done: it has
\* processed more files than the pre-scan counted, and it has left files in
\* directories it had already listed
C23_Witness ==
    /\ pc = "done"
    /\ DestinationInSource
    /\ late # {}
    /\ processed_files_count > total_files
    /\ total_files >= 1

===========================================================================
